---- MODULE Spec2Model ----
(***************************************************************************)
(* State-machine model of the AS_BH1750 driver (AS_BH1750.cpp / .h).       *)
(*                                                                         *)
(* The private fields of the class are the variables hardwareMode, MTreg,  *)
(* MTregFactor, virtualMode, autoPowerDown and valueReaded.  Every public  *)
(* operation is executed step by step: pc is the stack of code positions   *)
(* (its head is the next step, the rest are the return positions of the    *)
(* callers), and each bus transaction and each sleep is one step.  The     *)
(* transactions and sleeps of the running public call are recorded in log. *)
(* Floating point values are kept as exact fractions <<num, den>>.         *)
(***************************************************************************)
EXTENDS Integers, Sequences, FiniteSets, TLC

VARIABLES
  hardwareMode,   \* _hardwareMode (uint8_t)
  MTreg,          \* _MTreg (uint8_t)
  MTregFactor,    \* _MTregFactor (float), a fraction <<num, den>>
  virtualMode,    \* _virtualMode
  autoPowerDown,  \* _autoPowerDown
  valueReaded,    \* _valueReaded
  pc,             \* stack of code positions, <<>> when no call is running
  loc,            \* parameters, locals and return values of the private calls
  op,             \* the public operation running or last run
  retBool,        \* bool result of begin / isPresent
  retLux,         \* float result of readLightLevel, a fraction
  log,            \* bus transactions and sleeps of the current public call
  faults,         \* failed bus transactions in the current public call
  pre,            \* the fields and the device state when the call was made
  devDown,        \* the sensor is in power down (power saving) state
  devOneShot,     \* the sensor's last accepted mode command was a one-time mode
  devDelivered    \* a raw value was read from the sensor since the last mode command

fields == <<hardwareMode, MTreg, MTregFactor, virtualMode, autoPowerDown, valueReaded>>
dev == <<devDown, devOneShot, devDelivered>>
vars == <<hardwareMode, MTreg, MTregFactor, virtualMode, autoPowerDown, valueReaded,
          pc, loc, op, retBool, retLux, log, faults, pre, devDown, devOneShot,
          devDelivered>>

----------------------------------------------------------------------------
(* Constants of AS_BH1750.h *)

BH1750_MTREG_DEFAULT == 69
BH1750_MTREG_MIN == 31
BH1750_MTREG_MAX == 254
BH1750_POWER_ON == 1
BH1750_POWER_DOWN == 0
BH1750_CONTINUOUS_HIGH_RES_MODE == 16
BH1750_CONTINUOUS_HIGH_RES_MODE_2 == 17
BH1750_CONTINUOUS_LOW_RES_MODE == 19
BH1750_ONE_TIME_HIGH_RES_MODE == 32
BH1750_ONE_TIME_HIGH_RES_MODE_2 == 33
BH1750_ONE_TIME_LOW_RES_MODE == 35
RESOLUTION_LOW == 1
RESOLUTION_NORMAL == 2
RESOLUTION_HIGH == 3
RESOLUTION_AUTO_HIGH == 99

\* the value the constructor stores in _hardwareMode: not initialized
NotInitialized == 255
\* the error marker of readRawLevel
ReadError == 65535

----------------------------------------------------------------------------
(* Bounds and input sets *)

\* at most this many bus transactions fail during one public call
MaxFaults == 2

\* mode values passed to begin: the four of sensors_resolution_t and two others
VirtualModeInputs == {RESOLUTION_LOW, RESOLUTION_NORMAL, RESOLUTION_HIGH,
                      RESOLUTION_AUTO_HIGH, 0, 4}

\* raw counts the sensor delivers: both sides of every band limit, 120, and 0xFFFF
RawLevels == {9, 10, 120, 32766, 32767, 59999, 60000, 65535}

\* values an uninitialized uint8_t / float field may hold after construction
UninitByte == {0, 69}
UninitFloat == {<<-1, 1>>}

\* the delay functions: the platform's delay() and one supplied by the caller
DelayFuncs == {"delay", "user"}

\* arguments of defineMTReg (uint8_t) tried when it is exercised on its own
MTregInputs == {0, 30, 31, 32, 69, 200, 254, 255}

----------------------------------------------------------------------------
(* Pure helpers *)

LegalModes == {BH1750_CONTINUOUS_HIGH_RES_MODE, BH1750_CONTINUOUS_HIGH_RES_MODE_2,
               BH1750_CONTINUOUS_LOW_RES_MODE, BH1750_ONE_TIME_HIGH_RES_MODE,
               BH1750_ONE_TIME_HIGH_RES_MODE_2, BH1750_ONE_TIME_LOW_RES_MODE}

OneTimeModes == {BH1750_ONE_TIME_HIGH_RES_MODE, BH1750_ONE_TIME_HIGH_RES_MODE_2,
                 BH1750_ONE_TIME_LOW_RES_MODE}

\* isInitialized()
isInitialized == hardwareMode /= NotInitialized

\* (mutation of ClampMTreg: the upper limit is not applied)
ClampMTregLowOnly(v) == IF v < BH1750_MTREG_MIN THEN BH1750_MTREG_MIN ELSE v

\* the clamping at the head of defineMTReg
ClampMTreg(v) ==
  LET a == IF v < BH1750_MTREG_MIN THEN BH1750_MTREG_MIN ELSE v
  IN  IF a > BH1750_MTREG_MAX THEN BH1750_MTREG_MAX ELSE a

\* hiByte = val>>5 | 0b01000000
HiByte(v) == 64 + (v \div 32)
\* loByte = val&0b00011111 | 0b01100000
LoByte(v) == 96 + (v % 32)
\* the byte of the first write8 of defineMTReg
FirstMTregByte(v) == HiByte(v)
\* the byte of the second write8 of defineMTReg: the code passes hiByte again
SecondMTregByte(v) == HiByte(v)

\* (mutation of HardwareModeFor: the default case stores the mode argument)
HardwareModeForRaw(vm, apd) ==
  CASE vm = RESOLUTION_LOW ->
         IF apd THEN BH1750_ONE_TIME_LOW_RES_MODE ELSE BH1750_CONTINUOUS_LOW_RES_MODE
    [] vm = RESOLUTION_NORMAL ->
         IF apd THEN BH1750_ONE_TIME_HIGH_RES_MODE ELSE BH1750_CONTINUOUS_HIGH_RES_MODE
    [] vm = RESOLUTION_HIGH ->
         IF apd THEN BH1750_ONE_TIME_HIGH_RES_MODE_2 ELSE BH1750_CONTINUOUS_HIGH_RES_MODE_2
    [] vm = RESOLUTION_AUTO_HIGH -> BH1750_CONTINUOUS_LOW_RES_MODE
    [] OTHER -> vm

\* (mutation of HardwareModeFor: the default case keeps a legal mode, and
\* auto-high follows autoPowerDown like the other modes)
HardwareModeForSlip(vm, apd) ==
  CASE vm = RESOLUTION_LOW ->
         IF apd THEN BH1750_ONE_TIME_LOW_RES_MODE ELSE BH1750_CONTINUOUS_LOW_RES_MODE
    [] vm = RESOLUTION_NORMAL ->
         IF apd THEN BH1750_ONE_TIME_HIGH_RES_MODE ELSE BH1750_CONTINUOUS_HIGH_RES_MODE
    [] vm = RESOLUTION_HIGH ->
         IF apd THEN BH1750_ONE_TIME_HIGH_RES_MODE_2 ELSE BH1750_CONTINUOUS_HIGH_RES_MODE_2
    [] vm = RESOLUTION_AUTO_HIGH ->
         IF apd THEN BH1750_ONE_TIME_LOW_RES_MODE ELSE BH1750_CONTINUOUS_LOW_RES_MODE
    [] OTHER -> BH1750_CONTINUOUS_LOW_RES_MODE

\* the switch of begin
HardwareModeFor(vm, apd) ==
  CASE vm = RESOLUTION_LOW ->
         IF apd THEN BH1750_ONE_TIME_LOW_RES_MODE ELSE BH1750_CONTINUOUS_LOW_RES_MODE
    [] vm = RESOLUTION_NORMAL ->
         IF apd THEN BH1750_ONE_TIME_HIGH_RES_MODE ELSE BH1750_CONTINUOUS_HIGH_RES_MODE
    [] vm = RESOLUTION_HIGH ->
         IF apd THEN BH1750_ONE_TIME_HIGH_RES_MODE_2 ELSE BH1750_CONTINUOUS_HIGH_RES_MODE_2
    [] vm = RESOLUTION_AUTO_HIGH -> BH1750_CONTINUOUS_LOW_RES_MODE
    [] OTHER -> NotInitialized

\* (mutation of BandMTreg: the limits compared with <= instead of <)
BandMTregInclusive(level) ==
  IF level <= 10 THEN BH1750_MTREG_MAX
  ELSE IF level <= 32767 THEN BH1750_MTREG_DEFAULT
  ELSE IF level <= 60000 THEN BH1750_MTREG_DEFAULT
  ELSE 32

\* the band chain of readLightLevel: the argument of defineMTReg
BandMTreg(level) ==
  IF level < 10 THEN BH1750_MTREG_MAX
  ELSE IF level < 32767 THEN BH1750_MTREG_DEFAULT
  ELSE IF level < 60000 THEN BH1750_MTREG_DEFAULT
  ELSE 32

\* the band chain of readLightLevel: the argument of selectResolutionMode
BandMode(level, apd) ==
  IF level < 10 THEN
    (IF apd THEN BH1750_ONE_TIME_HIGH_RES_MODE_2 ELSE BH1750_CONTINUOUS_HIGH_RES_MODE_2)
  ELSE IF level < 32767 THEN
    (IF apd THEN BH1750_ONE_TIME_HIGH_RES_MODE_2 ELSE BH1750_CONTINUOUS_HIGH_RES_MODE_2)
  ELSE IF level < 60000 THEN
    (IF apd THEN BH1750_ONE_TIME_HIGH_RES_MODE ELSE BH1750_CONTINUOUS_HIGH_RES_MODE)
  ELSE
    (IF apd THEN BH1750_ONE_TIME_HIGH_RES_MODE ELSE BH1750_CONTINUOUS_HIGH_RES_MODE)

\* (mutation of BandDelay: the dark band waits like the other bands)
BandDelayFixed(level) == 120

\* the band chain of readLightLevel: the argument of fDelayPtr;
\* 120*3.68 is 441.6 and becomes the unsigned long 441
BandDelay(level) ==
  IF level < 10 THEN (120 * 368) \div 100 ELSE 120

\* fractions are kept in lowest terms with a positive denominator
RECURSIVE GCD(_, _)
GCD(a, b) == IF b = 0 THEN a ELSE GCD(b, a % b)
Abs(x) == IF x < 0 THEN -x ELSE x
Reduce(q) ==
  LET g == GCD(Abs(q[1]), q[2])
  IN  IF g = 0 THEN q ELSE <<q[1] \div g, q[2] \div g>>

\* (mutation of convertRawValue: the division by 2 of the mode-2 modes left out)
convertRawValueNoHalf(rawv, reg, factor, hw) ==
  LET n1 == rawv * 10
      d1 == 12
      n2 == IF reg /= BH1750_MTREG_DEFAULT THEN n1 * factor[1] ELSE n1
      d2 == IF reg /= BH1750_MTREG_DEFAULT THEN d1 * factor[2] ELSE d1
  IN  Reduce(<<n2, d2>>)

\* convertRawValue as an exact fraction: raw/1.2, times _MTregFactor unless
\* _MTreg is 69, halved in the two mode-2 hardware modes
convertRawValue(rawv, reg, factor, hw) ==
  LET n1 == rawv * 10
      d1 == 12
      n2 == IF reg /= BH1750_MTREG_DEFAULT THEN n1 * factor[1] ELSE n1
      d2 == IF reg /= BH1750_MTREG_DEFAULT THEN d1 * factor[2] ELSE d1
      d3 == IF hw \in {BH1750_CONTINUOUS_HIGH_RES_MODE_2, BH1750_ONE_TIME_HIGH_RES_MODE_2}
            THEN d2 * 2 ELSE d2
  IN  Reduce(<<n2, d3>>)

\* the float -1 returned by readLightLevel
MinusOne == <<-1, 1>>

----------------------------------------------------------------------------
(* Log entries and the bus *)

Ev(e, v, o, f) == [ev |-> e, val |-> v, ok |-> o, fn |-> f]

\* outcomes a bus transaction may have now
BusOutcomes == IF faults < MaxFaults THEN BOOLEAN ELSE {TRUE}

\* what an acknowledged command byte does to the sensor's power state
DevAfter(d) ==
  IF d = BH1750_POWER_DOWN THEN <<TRUE, devOneShot>>
  ELSE IF d \in OneTimeModes THEN <<FALSE, TRUE>>
  ELSE IF d \in LegalModes THEN <<FALSE, FALSE>>
  ELSE <<devDown, devOneShot>>

\* write8(d) with transport result ok
write8(d, ok) ==
  /\ log' = Append(log, Ev("write", d, ok, "-"))
  /\ faults' = IF ok THEN faults ELSE faults + 1
  /\ devDown' = IF ok THEN DevAfter(d)[1] ELSE devDown
  /\ devOneShot' = IF ok THEN DevAfter(d)[2] ELSE devOneShot
  /\ devDelivered' = IF d \in LegalModes THEN FALSE ELSE devDelivered

\* Wire.beginTransmission(_address); Wire.endTransmission() with result ok
probe(ok) ==
  /\ log' = Append(log, Ev("probe", 0, ok, "-"))
  /\ faults' = IF ok THEN faults ELSE faults + 1
  /\ UNCHANGED dev

\* (mutation of RawResult: a failed transaction gives the value 0)
RawResultZero(ok, v) == IF ok THEN v ELSE 0

\* the value readRawLevel returns
RawResult(ok, v) == IF ok THEN v ELSE ReadError

\* (mutation of readRawLevel: the measured flag is set without looking at
\* the result of the transaction)
readRawLevelAlwaysMarks(ok, v) ==
  /\ log' = Append(log, Ev("read", RawResult(ok, v), ok, "-"))
  /\ faults' = IF ok THEN faults ELSE faults + 1
  /\ valueReaded' = TRUE
  /\ devDelivered' = IF ok THEN TRUE ELSE devDelivered
  /\ UNCHANGED <<devDown, devOneShot>>

\* readRawLevel with transport result ok and delivered count v
readRawLevel(ok, v) ==
  /\ log' = Append(log, Ev("read", RawResult(ok, v), ok, "-"))
  /\ faults' = IF ok THEN faults ELSE faults + 1
  /\ valueReaded' = IF ok THEN TRUE ELSE valueReaded
  /\ devDelivered' = IF ok THEN TRUE ELSE devDelivered
  /\ UNCHANGED <<devDown, devOneShot>>

\* fDelayPtr(n)
sleep(n, f) ==
  /\ log' = Append(log, Ev("sleep", n, TRUE, f))
  /\ UNCHANGED <<faults, dev>>

\* the fields and the sensor state when a public call is made; arg is the
\* argument of defineMTReg and prevArg the one of the call before; begun tells
\* that a call of begin has returned before
Snapshot(arg) ==
  [hardwareMode |-> hardwareMode, MTreg |-> MTreg, MTregFactor |-> MTregFactor,
   virtualMode |-> virtualMode, autoPowerDown |-> autoPowerDown,
   valueReaded |-> valueReaded, devDown |-> devDown,
   devDelivered |-> devDelivered, arg |-> arg,
   prevArg |-> pre.arg, begun |-> (pre.begun \/ op = "begin")]

\* no bus transaction and no sleep yet in this call
NothingLogged ==
  /\ log' = <<>>
  /\ faults' = 0

\* a public call starts
Enter(name, arg) ==
  /\ pc = <<>>
  /\ op' = name
  /\ retBool' = FALSE
  /\ retLux' = <<0, 1>>
  /\ pre' = Snapshot(arg)

LocInit == [val |-> 0, mode |-> 0, fDelay |-> "delay", rlDelay |-> "delay",
            selRet |-> FALSE, rlRet |-> <<0, 1>>, level |-> 0, raw |-> 0]

----------------------------------------------------------------------------
(* The constructor *)

Init ==
  /\ hardwareMode = NotInitialized
  /\ MTreg \in UninitByte
  /\ MTregFactor \in UninitFloat
  /\ virtualMode \in {RESOLUTION_LOW, 0}
  /\ autoPowerDown \in BOOLEAN
  /\ valueReaded \in BOOLEAN
  /\ pc = <<>>
  /\ loc = LocInit
  /\ op = "none"
  /\ retBool = FALSE
  /\ retLux = <<0, 1>>
  /\ log = <<>>
  /\ faults = 0
  /\ pre = [hardwareMode |-> NotInitialized, MTreg |-> MTreg, MTregFactor |-> MTregFactor,
            virtualMode |-> virtualMode, autoPowerDown |-> autoPowerDown,
            valueReaded |-> valueReaded, devDown |-> TRUE,
            devDelivered |-> FALSE, arg |-> -1,
            prevArg |-> -1, begun |-> FALSE]
  /\ devDown = TRUE
  /\ devOneShot = FALSE
  /\ devDelivered = FALSE

----------------------------------------------------------------------------
(* Call and return on the stack of code positions *)

Return == Tail(pc)
Goto(l) == <<l>> \o Tail(pc)
Call(l, back) == <<l, back>> \o Tail(pc)
At(l) == pc /= <<>> /\ Head(pc) = l

----------------------------------------------------------------------------
(* defineMTReg(val) *)

\* lines 421-430: clamp, compare with _MTreg, store register and factor
MtEntry ==
  /\ At("mt_entry")
  /\ LET v == ClampMTreg(loc.val) IN
       IF v /= MTreg
       THEN /\ MTreg' = v
            /\ MTregFactor' = <<BH1750_MTREG_DEFAULT, v>>
            /\ loc' = [loc EXCEPT !.val = v]
            /\ pc' = Goto("mt_hi")
       ELSE /\ loc' = [loc EXCEPT !.val = v]
            /\ pc' = Return
            /\ UNCHANGED <<MTreg, MTregFactor>>
  /\ UNCHANGED <<hardwareMode, virtualMode, autoPowerDown, valueReaded,
                 op, retBool, retLux, log, faults, pre, dev>>

\* line 441: write8(hiByte)
MtWriteHi ==
  /\ At("mt_hi")
  /\ \E ok \in BusOutcomes : write8(FirstMTregByte(loc.val), ok)
  /\ pc' = Goto("mt_lo")
  /\ UNCHANGED <<fields, loc, op, retBool, retLux, pre>>

\* line 450: the second write8
MtWriteLo ==
  /\ At("mt_lo")
  /\ \E ok \in BusOutcomes : write8(SecondMTregByte(loc.val), ok)
  /\ pc' = Return
  /\ UNCHANGED <<fields, loc, op, retBool, retLux, pre>>

----------------------------------------------------------------------------
(* selectResolutionMode(mode, fDelayPtr) *)

\* the guard of line 202: the call goes on only on an initialized handle
SelectProceeds == isInitialized

\* lines 202-219: the isInitialized guard, the two stores, the switch
SelEntry ==
  /\ At("sel_entry")
  /\ IF ~SelectProceeds
     THEN /\ loc' = [loc EXCEPT !.selRet = FALSE]
          /\ pc' = Return
          /\ UNCHANGED <<hardwareMode, valueReaded>>
     ELSE /\ hardwareMode' = loc.mode
          /\ valueReaded' = FALSE
          /\ IF loc.mode \in LegalModes
             THEN /\ pc' = Goto("sel_write")
                  /\ loc' = loc
             ELSE /\ pc' = Return
                  /\ loc' = [loc EXCEPT !.selRet = FALSE]
  /\ UNCHANGED <<MTreg, MTregFactor, virtualMode, autoPowerDown,
                 op, retBool, retLux, log, faults, pre, dev>>

\* line 221: write8(mode)
SelWrite ==
  /\ At("sel_write")
  /\ \E ok \in BusOutcomes :
       /\ write8(loc.mode, ok)
       /\ IF ok
          THEN /\ pc' = Goto("sel_delay")
               /\ loc' = loc
          ELSE /\ pc' = Return
               /\ loc' = [loc EXCEPT !.selRet = FALSE]
  /\ UNCHANGED <<fields, op, retBool, retLux, pre>>

\* lines 224-225: fDelayPtr(5); return true
SelDelay ==
  /\ At("sel_delay")
  /\ sleep(5, loc.fDelay)
  /\ loc' = [loc EXCEPT !.selRet = TRUE]
  /\ pc' = Return
  /\ UNCHANGED <<fields, op, retBool, retLux, pre>>

----------------------------------------------------------------------------
(* powerOn() *)

\* lines 159-170: the guard, _valueReaded=false, selectResolutionMode(_hardwareMode)
PowerOn ==
  /\ At("pon_entry")
  /\ IF ~isInitialized
     THEN /\ pc' = Return
          /\ UNCHANGED <<valueReaded, loc>>
     ELSE /\ valueReaded' = FALSE
          /\ loc' = [loc EXCEPT !.mode = hardwareMode, !.fDelay = "delay"]
          /\ pc' = Goto("sel_entry")
  /\ UNCHANGED <<hardwareMode, MTreg, MTregFactor, virtualMode, autoPowerDown,
                 op, retBool, retLux, log, faults, pre, dev>>

----------------------------------------------------------------------------
(* begin(mode, autoPowerDown) *)

\* lines 74-79: store the two arguments, defineMTReg(BH1750_MTREG_DEFAULT)
Begin(m, apd) ==
  /\ Enter("begin", -1)
  /\ NothingLogged
  /\ virtualMode' = m
  /\ autoPowerDown' = apd
  /\ loc' = [LocInit EXCEPT !.val = BH1750_MTREG_DEFAULT]
  /\ pc' = <<"mt_entry", "begin_switch">>
  /\ UNCHANGED <<hardwareMode, MTreg, MTregFactor, valueReaded, dev>>

\* lines 82-111: the switch, the early return, selectResolutionMode(_hardwareMode)
BeginSwitch ==
  /\ At("begin_switch")
  /\ LET hw == HardwareModeFor(virtualMode, autoPowerDown) IN
       /\ hardwareMode' = hw
       /\ IF hw = NotInitialized
          THEN /\ retBool' = FALSE
               /\ pc' = Return
               /\ loc' = loc
          ELSE /\ loc' = [loc EXCEPT !.mode = hw, !.fDelay = "delay"]
               /\ pc' = Call("sel_entry", "begin_done")
               /\ retBool' = retBool
  /\ UNCHANGED <<MTreg, MTregFactor, virtualMode, autoPowerDown, valueReaded,
                 op, retLux, log, faults, pre, dev>>

\* (mutation of BeginResult: line 124, the reset to 255, left out)
BeginResultNoReset(ok, hw) == IF ok THEN <<hw, TRUE>> ELSE <<hw, FALSE>>

\* what begin stores in _hardwareMode and returns after selectResolutionMode
\* returned ok: <<stored mode, result>>
BeginResult(ok, hw) == IF ok THEN <<hw, TRUE>> ELSE <<NotInitialized, FALSE>>

\* lines 111-125
BeginDone ==
  /\ At("begin_done")
  /\ hardwareMode' = BeginResult(loc.selRet, hardwareMode)[1]
  /\ retBool' = BeginResult(loc.selRet, hardwareMode)[2]
  /\ pc' = Return
  /\ UNCHANGED <<MTreg, MTregFactor, virtualMode, autoPowerDown, valueReaded,
                 loc, op, retLux, log, faults, pre, dev>>

----------------------------------------------------------------------------
(* powerDown() *)

\* (mutation of PowerDownProceeds: the guard of line 178 left out)
PowerDownUnguarded == TRUE

\* the guard of line 178: powerDown goes on only on an initialized handle
PowerDownProceeds == isInitialized

\* lines 178-183
PowerDown ==
  /\ Enter("powerDown", -1)
  /\ NothingLogged
  /\ loc' = LocInit
  /\ pc' = IF PowerDownProceeds THEN <<"pd_write">> ELSE <<>>
  /\ UNCHANGED <<fields, dev>>

\* line 185: write8(BH1750_POWER_DOWN)
PdWrite ==
  /\ At("pd_write")
  /\ \E ok \in BusOutcomes : write8(BH1750_POWER_DOWN, ok)
  /\ pc' = Return
  /\ UNCHANGED <<fields, loc, op, retBool, retLux, pre>>

----------------------------------------------------------------------------
(* readLightLevel(fDelayPtr) *)

\* (mutation of ReadProceeds: the guard of line 251 left out)
ReadProceedsUnguarded == TRUE

\* the guard of line 251: the read goes on only on an initialized handle
ReadProceeds == isInitialized

\* (mutation of WakeNeeded: the measured flag is not looked at)
WakeNeededAlways == autoPowerDown

\* the condition of line 259 under which powerOn() is called first
WakeNeeded == autoPowerDown /\ valueReaded

\* the public call
ReadLightLevel(f) ==
  /\ Enter("readLightLevel", -1)
  /\ NothingLogged
  /\ loc' = [LocInit EXCEPT !.rlDelay = f]
  /\ pc' = <<"rl_entry", "rl_return">>
  /\ UNCHANGED <<fields, dev>>

\* lines 251-261: return -1 when not initialized, else powerOn() if needed
RlEntry ==
  /\ At("rl_entry")
  /\ IF ~ReadProceeds
     THEN /\ loc' = [loc EXCEPT !.rlRet = MinusOne]
          /\ pc' = Return
     ELSE /\ loc' = loc
          /\ pc' = IF WakeNeeded THEN Call("pon_entry", "rl_auto") ELSE Goto("rl_auto")
  /\ UNCHANGED <<fields, op, retBool, retLux, log, faults, pre, dev>>

\* lines 272-273: the auto-high branch starts with defineMTReg(BH1750_MTREG_DEFAULT)
RlAuto ==
  /\ At("rl_auto")
  /\ IF virtualMode = RESOLUTION_AUTO_HIGH
     THEN /\ loc' = [loc EXCEPT !.val = BH1750_MTREG_DEFAULT]
          /\ pc' = Call("mt_entry", "rl_sel1")
     ELSE /\ loc' = loc
          /\ pc' = Goto("rl_final")
  /\ UNCHANGED <<fields, op, retBool, retLux, log, faults, pre, dev>>

\* line 274: selectResolutionMode(BH1750_CONTINUOUS_LOW_RES_MODE, fDelayPtr)
RlSelectProbeMode ==
  /\ At("rl_sel1")
  /\ loc' = [loc EXCEPT !.mode = BH1750_CONTINUOUS_LOW_RES_MODE, !.fDelay = loc.rlDelay]
  /\ pc' = Call("sel_entry", "rl_delay16")
  /\ UNCHANGED <<fields, op, retBool, retLux, log, faults, pre, dev>>

\* line 275: fDelayPtr(16)
RlProbeDelay ==
  /\ At("rl_delay16")
  /\ sleep(16, loc.rlDelay)
  /\ pc' = Goto("rl_probe")
  /\ UNCHANGED <<fields, loc, op, retBool, retLux, pre>>

\* line 276: level = readRawLevel()
RlProbe ==
  /\ At("rl_probe")
  /\ \E ok \in BusOutcomes : \E v \in RawLevels :
       /\ readRawLevel(ok, v)
       /\ loc' = [loc EXCEPT !.level = RawResult(ok, v)]
  /\ pc' = Goto("rl_band")
  /\ UNCHANGED <<hardwareMode, MTreg, MTregFactor, virtualMode, autoPowerDown,
                 op, retBool, retLux, pre>>

\* lines 281-316: the band's defineMTReg
RlBandMTreg ==
  /\ At("rl_band")
  /\ loc' = [loc EXCEPT !.val = BandMTreg(loc.level)]
  /\ pc' = Call("mt_entry", "rl_sel2")
  /\ UNCHANGED <<fields, op, retBool, retLux, log, faults, pre, dev>>

\* lines 289-317: the band's selectResolutionMode
RlBandSelect ==
  /\ At("rl_sel2")
  /\ loc' = [loc EXCEPT !.mode = BandMode(loc.level, autoPowerDown), !.fDelay = loc.rlDelay]
  /\ pc' = Call("sel_entry", "rl_delayB")
  /\ UNCHANGED <<fields, op, retBool, retLux, log, faults, pre, dev>>

\* lines 290-318: the band's fDelayPtr
RlBandDelay ==
  /\ At("rl_delayB")
  /\ sleep(BandDelay(loc.level), loc.rlDelay)
  /\ pc' = Goto("rl_final")
  /\ UNCHANGED <<fields, loc, op, retBool, retLux, pre>>

\* lines 323-332: raw = readRawLevel(); a raw value other than 65535 is converted
RlFinal ==
  /\ At("rl_final")
  /\ \E ok \in BusOutcomes : \E v \in RawLevels :
       /\ readRawLevel(ok, v)
       /\ IF RawResult(ok, v) = ReadError
          THEN /\ loc' = [loc EXCEPT !.raw = RawResult(ok, v)]
               /\ pc' = Goto("rl_presence")
          ELSE /\ loc' = [loc EXCEPT !.raw = RawResult(ok, v),
                                     !.rlRet = convertRawValue(RawResult(ok, v), MTreg,
                                                               MTregFactor, hardwareMode)]
               /\ pc' = Return
  /\ UNCHANGED <<hardwareMode, MTreg, MTregFactor, virtualMode, autoPowerDown,
                 op, retBool, retLux, pre>>

\* (mutation of SuspiciousResult: 65535 is taken as an error without looking at
\* the result of the presence check)
SuspiciousResultAlwaysError(ok, rawv, reg, factor, hw) == MinusOne

\* what readLightLevel returns for raw = 65535 when the presence check ended ok
SuspiciousResult(ok, rawv, reg, factor, hw) ==
  IF ~ok THEN MinusOne ELSE convertRawValue(rawv, reg, factor, hw)

\* lines 324-332: raw is 65535: check the I2C address, return -1 or convert
RlPresence ==
  /\ At("rl_presence")
  /\ \E ok \in BusOutcomes :
       /\ probe(ok)
       /\ loc' = [loc EXCEPT !.rlRet = SuspiciousResult(ok, loc.raw, MTreg, MTregFactor,
                                                        hardwareMode)]
  /\ pc' = Return
  /\ UNCHANGED <<fields, op, retBool, retLux, pre>>

\* the public call returns the float
RlReturn ==
  /\ At("rl_return")
  /\ retLux' = loc.rlRet
  /\ pc' = Return
  /\ UNCHANGED <<fields, loc, op, retBool, log, faults, pre, dev>>

----------------------------------------------------------------------------
(* isPresent() *)

\* lines 133-148: check the address; then the throwaway mode select on a handle
\* that is not initialized, powerOn() on one that is
IsPresent ==
  /\ Enter("isPresent", -1)
  /\ \E ok \in BOOLEAN :
       /\ log' = <<Ev("probe", 0, ok, "-")>>
       /\ faults' = IF ok THEN 0 ELSE 1
       /\ IF ~ok
          THEN /\ pc' = <<>>
               /\ loc' = LocInit
          ELSE IF ~isInitialized
          THEN /\ pc' = <<"sel_entry", "isp_reset">>
               /\ loc' = [LocInit EXCEPT !.mode = BH1750_ONE_TIME_LOW_RES_MODE]
          ELSE /\ pc' = <<"pon_entry", "isp_read">>
               /\ loc' = LocInit
  /\ UNCHANGED <<fields, dev>>

\* line 143: _hardwareMode=255
IspReset ==
  /\ At("isp_reset")
  /\ hardwareMode' = NotInitialized
  /\ pc' = Goto("isp_read")
  /\ UNCHANGED <<MTreg, MTregFactor, virtualMode, autoPowerDown, valueReaded,
                 loc, op, retBool, retLux, log, faults, pre, dev>>

\* line 151: readLightLevel() with the default delay
IspRead ==
  /\ At("isp_read")
  /\ loc' = [loc EXCEPT !.rlDelay = "delay"]
  /\ pc' = Call("rl_entry", "isp_return")
  /\ UNCHANGED <<fields, op, retBool, retLux, log, faults, pre, dev>>

\* line 151: return (readLightLevel()>=0)
IspReturn ==
  /\ At("isp_return")
  /\ retBool' = (loc.rlRet[1] >= 0)
  /\ pc' = Return
  /\ UNCHANGED <<fields, loc, op, retLux, log, faults, pre, dev>>

----------------------------------------------------------------------------
(* The sensor *)

\* a one-time measurement ends and the sensor sets itself to power down
OneTimeMeasurementDone ==
  /\ pc = <<>>
  /\ ~devDown
  /\ devOneShot
  /\ devDown' = TRUE
  /\ UNCHANGED <<fields, pc, loc, op, retBool, retLux, log, faults, pre, devOneShot,
                 devDelivered>>

----------------------------------------------------------------------------
(* The driver used through its public operations *)

Next ==
  \/ \E m \in VirtualModeInputs : \E apd \in BOOLEAN : Begin(m, apd)
  \/ IsPresent
  \/ \E f \in DelayFuncs : ReadLightLevel(f)
  \/ PowerDown
  \/ MtEntry \/ MtWriteHi \/ MtWriteLo
  \/ SelEntry \/ SelWrite \/ SelDelay
  \/ PowerOn
  \/ BeginSwitch \/ BeginDone
  \/ PdWrite
  \/ RlEntry \/ RlAuto \/ RlSelectProbeMode \/ RlProbeDelay \/ RlProbe
  \/ RlBandMTreg \/ RlBandSelect \/ RlBandDelay \/ RlFinal \/ RlPresence \/ RlReturn
  \/ IspReset \/ IspRead \/ IspReturn
  \/ OneTimeMeasurementDone

Spec == Init /\ [][Next]_vars

----------------------------------------------------------------------------
(* defineMTReg exercised on its own, with arguments over the uint8_t range *)

DefineMTReg(v) ==
  /\ Enter("defineMTReg", v)
  /\ NothingLogged
  /\ loc' = [LocInit EXCEPT !.val = v]
  /\ pc' = <<"mt_entry">>
  /\ UNCHANGED <<fields, dev>>

NextMT ==
  \/ \E v \in MTregInputs : DefineMTReg(v)
  \/ MtEntry \/ MtWriteHi \/ MtWriteLo

SpecMT == Init /\ [][NextMT]_vars

----------------------------------------------------------------------------
(* Reading the log *)

\* a public call of name has returned
Returned(name) == pc = <<>> /\ op = name

IsWrite(e) == e.ev = "write"
IsRead(e) == e.ev = "read"
IsProbe(e) == e.ev = "probe"
IsSleep(e) == e.ev = "sleep"
IsModeSelect(e) == e.ev = "write" /\ e.val \in LegalModes

Positions(P(_)) == {i \in 1..Len(log) : P(log[i])}
Max(S) == CHOOSE x \in S : \A y \in S : y <= x
Min(S) == CHOOSE x \in S : \A y \in S : x <= y

----------------------------------------------------------------------------
(* C1: readLightLevel called on a handle that is not initialized (hardware  *)
(* mode 255) returns exactly -1: at the return position of every            *)
(* readLightLevel call, public or made by isPresent, a handle that is not   *)
(* initialized goes with the result -1, and a public call made on such a    *)
(* handle has returned -1 to its caller.                                    *)
C1_UninitializedReadReturnsMinusOne ==
  /\ ((At("rl_return") \/ At("isp_return")) /\ hardwareMode = NotInitialized)
        => loc.rlRet = MinusOne
  /\ (Returned("readLightLevel") /\ pre.hardwareMode = NotInitialized)
        => (retLux = MinusOne /\ hardwareMode = NotInitialized)

\* a read on a handle that an earlier begin had initialized (the sensor took a
\* mode command) and a later failed begin left uninitialized
C1_Witness ==
  /\ Returned("readLightLevel")
  /\ pre.hardwareMode = NotInitialized
  /\ ~pre.devDown
  /\ retLux = MinusOne

(* C2: if any bus write of begin fails, the two writes of defineMTReg        *)
(* included, begin returns false and the handle is not initialized.          *)
C2_AnyFailedWriteFailsBegin ==
  (Returned("begin") /\ \E i \in Positions(IsWrite) : ~log[i].ok)
     => (~retBool /\ ~isInitialized)

(* C3: begin with a mode that is none of low, normal, high, auto-high        *)
(* returns false and leaves the handle uninitialized, whatever autoPowerDown *)
(* and the state before the call were.                                       *)
C3_UnknownModeFailsBegin ==
  (Returned("begin") /\ virtualMode \notin {1, 2, 3, 99})
     => (~retBool /\ hardwareMode = 255)

\* begin with an unknown mode has returned on a handle that was initialized
C3_Witness ==
  /\ Returned("begin")
  /\ virtualMode \notin {1, 2, 3, 99}
  /\ pre.hardwareMode /= 255
  /\ autoPowerDown
  /\ ~retBool
  /\ hardwareMode = 255

\* the table of claim C4: virtual mode and autoPowerDown to command byte
C4_Table(vm, apd) ==
  IF vm = 1 THEN (IF apd THEN 35 ELSE 19)
  ELSE IF vm = 2 THEN (IF apd THEN 32 ELSE 16)
  ELSE IF vm = 3 THEN (IF apd THEN 33 ELSE 17)
  ELSE 19

(* C4: when begin is called with a recognized mode and its mode-select write *)
(* succeeds, begin returns true and the stored hardware mode is the byte of  *)
(* the table, which is the byte written; and begin returns true exactly when *)
(* the handle is initialized at its return.                                  *)
C4_BeginMapping ==
  Returned("begin") =>
    /\ retBool <=> isInitialized
    /\ (/\ virtualMode \in {1, 2, 3, 99}
        /\ \E i \in Positions(IsModeSelect) : log[i].ok)
         => /\ retBool
            /\ hardwareMode = C4_Table(virtualMode, autoPowerDown)
            /\ \A i \in Positions(IsModeSelect) : log[i].val = hardwareMode

\* begin(auto-high, autoPowerDown = true) has returned true with mode 0x13
C4_Witness ==
  /\ Returned("begin")
  /\ virtualMode = 99
  /\ autoPowerDown
  /\ retBool
  /\ hardwareMode = 19
  /\ \E i \in Positions(IsModeSelect) : log[i].ok /\ log[i].val = 19

(* C5: isPresent on a handle that is not initialized, when the presence      *)
(* probe succeeds, writes the one-time low resolution command 0x23, then     *)
(* reads the raw value, and returns true exactly when that read gives a      *)
(* light level that is not negative.                                         *)
C5_IsPresentProbesUninitialized ==
  (Returned("isPresent") /\ pre.hardwareMode = 255 /\ log[1].ok)
     => /\ \E i \in Positions(IsWrite) : \E j \in Positions(IsRead) :
             log[i].val = 35 /\ i < j
        /\ retBool <=> (loc.rlRet[1] >= 0)

(* C6: on an initialized handle, when the sensor is in power down at the     *)
(* moment readLightLevel is called, the call writes a mode-select command    *)
(* to the bus before each of its raw reads.                                  *)
C6_WakesSleepingSensor ==
  (op = "readLightLevel" /\ pre.hardwareMode /= 255 /\ pre.devDown)
     => \A j \in Positions(IsRead) : \E i \in Positions(IsModeSelect) : i < j

(* C7: on an initialized handle readLightLevel returns -1 exactly when its   *)
(* final raw read gave 0xFFFF and the presence probe after it failed; a raw  *)
(* value other than 0xFFFF is followed by no presence probe; and a result    *)
(* other than -1 is the lux value of the raw count, which is not negative.   *)
C7_MinusOneOnlyWhenProbeFails ==
  (Returned("readLightLevel") /\ pre.hardwareMode /= 255) =>
    /\ Positions(IsRead) /= {}
    /\ LET r == log[Max(Positions(IsRead))]
           last == log[Len(log)]
           half == IF hardwareMode \in {17, 33} THEN 2 ELSE 1
       IN  /\ (retLux = MinusOne) <=> (r.val = 65535 /\ IsProbe(last) /\ ~last.ok)
           /\ r.val /= 65535 => (Positions(IsProbe) = {} /\ IsRead(last))
           /\ r.val = 65535 => (Positions(IsProbe) = {Len(log)}
                                  /\ Max(Positions(IsRead)) = Len(log) - 1)
           /\ retLux /= MinusOne =>
                /\ retLux[1] >= 0
                /\ retLux[2] > 0
                /\ retLux = Reduce(<<r.val * 10 * 69, 12 * MTreg * half>>)

\* the final raw read failed on the bus, the presence probe failed too, and
\* readLightLevel has returned -1
C7_Witness ==
  /\ Returned("readLightLevel")
  /\ pre.hardwareMode /= 255
  /\ Len(log) >= 2
  /\ IsRead(log[Len(log) - 1]) /\ ~log[Len(log) - 1].ok
  /\ IsProbe(log[Len(log)]) /\ ~log[Len(log)].ok
  /\ retLux = MinusOne

(* C8: defineMTReg leaves the nearest bound in the register for an argument  *)
(* outside [31,254] and the argument itself otherwise; a second call with    *)
(* the same argument right after the first writes nothing to the bus and     *)
(* leaves register and scale factor as they were.                            *)
C8_ClampAndIdempotent ==
  /\ Returned("defineMTReg") =>
       MTreg = (IF pre.arg < 31 THEN 31 ELSE IF pre.arg > 254 THEN 254 ELSE pre.arg)
  /\ (op = "defineMTReg" /\ pre.prevArg = pre.arg) =>
       /\ log = <<>>
       /\ MTreg = pre.MTreg
       /\ MTregFactor = pre.MTregFactor

\* defineMTReg(255) has returned for the second time in a row, register 254
C8_Witness ==
  /\ Returned("defineMTReg")
  /\ pre.arg = 255
  /\ pre.prevArg = 255
  /\ MTreg = 254
  /\ MTregFactor = <<69, 254>>
  /\ log = <<>>

(* C9: whenever defineMTReg changes the register to v it writes exactly two  *)
(* bytes: first 0b01000000 | (v >> 5), then 0b01100000 | (v & 0b00011111).   *)
C9_TwoWritesHighThenLow ==
  (Returned("defineMTReg") /\ MTreg /= pre.MTreg) =>
    /\ Len(log) = 2
    /\ IsWrite(log[1]) /\ log[1].val = 64 + (MTreg \div 32)
    /\ IsWrite(log[2]) /\ log[2].val = 96 + (MTreg % 32)

(* C10: in auto-high mode, when readLightLevel returns, the probe value p    *)
(* (its first raw read) has put register and hardware mode to: p < 10 ->     *)
(* 254 and mode 2; 10 <= p < 32767 -> 69 and mode 2; 32767 <= p < 60000 ->   *)
(* 69 and mode 1; p >= 60000 -> 32 and mode 1; the one-time code of the mode *)
(* with autoPowerDown, the continuous code without; and exactly one band     *)
(* reaction ran: one mode-select and one band sleep after the probe.         *)
C10_AutoRangeBands ==
  (pc = <<>> /\ op \in {"readLightLevel", "isPresent"} /\ virtualMode = 99
     /\ Positions(IsRead) /= {}) =>
    LET k == Min(Positions(IsRead))
        p == log[k].val
        mode2 == IF autoPowerDown THEN 33 ELSE 17
        mode1 == IF autoPowerDown THEN 32 ELSE 16
        after(P(_)) == {i \in Positions(P) : i > k}
        bandSleep(e) == IsSleep(e) /\ e.val /= 5
    IN  /\ p \in 0..65535
        /\ p < 10 => (MTreg = 254 /\ hardwareMode = mode2)
        /\ (10 <= p /\ p < 32767) => (MTreg = 69 /\ hardwareMode = mode2)
        /\ (32767 <= p /\ p < 60000) => (MTreg = 69 /\ hardwareMode = mode1)
        /\ p >= 60000 => (MTreg = 32 /\ hardwareMode = mode1)
        /\ Cardinality(after(IsModeSelect)) = 1
        /\ \A i \in after(IsModeSelect) : log[i].val = hardwareMode
        /\ Cardinality(after(bandSleep)) = 1
        /\ Cardinality(after(IsRead)) = 1

\* an auto-high read with autoPowerDown whose probe gave 9 has returned with
\* register 254 and the one-time mode 2
C10_Witness ==
  /\ Returned("readLightLevel")
  /\ virtualMode = 99
  /\ autoPowerDown
  /\ Positions(IsRead) /= {}
  /\ log[Min(Positions(IsRead))].val = 9
  /\ MTreg = 254
  /\ hardwareMode = 33

(* C11: the lux value returned for a raw count is raw/1.2, times 69/register *)
(* when the register is not 69, divided by 2 exactly in the hardware modes   *)
(* 0x11 and 0x21, as exact fractions.  With register 69 the mode-2 result is *)
(* half of raw/1.2 and every other mode gives raw/1.2 itself; raw = 120      *)
(* gives 100, and 50 in a mode-2 mode; the result is never negative.         *)
C11_LuxValue ==
  (Returned("readLightLevel") /\ pre.hardwareMode /= 255 /\ retLux /= MinusOne) =>
    LET rawv == log[Max(Positions(IsRead))].val
        mode2 == hardwareMode \in {17, 33}
        base == Reduce(<<rawv * 10, 12>>)
        scaled == IF MTreg /= 69 THEN Reduce(<<base[1] * 69, base[2] * MTreg>>) ELSE base
        lux == IF mode2 THEN Reduce(<<scaled[1], scaled[2] * 2>>) ELSE scaled
    IN  /\ retLux = lux
        /\ retLux[1] >= 0 /\ retLux[2] > 0
        /\ (MTreg = 69 /\ ~mode2) => retLux[1] * 12 = rawv * 10 * retLux[2]
        /\ (MTreg = 69 /\ mode2) => retLux[1] * 24 = rawv * 10 * retLux[2]
        /\ (MTreg = 69 /\ rawv = 120) => retLux = (IF mode2 THEN <<50, 1>> ELSE <<100, 1>>)

\* raw 120 with register 69 in the one-time mode 2 has given 50 lux
C11_Witness ==
  /\ Returned("readLightLevel")
  /\ pre.hardwareMode /= 255
  /\ log[Len(log)] = Ev("read", 120, TRUE, "-")
  /\ MTreg = 69
  /\ hardwareMode = 33
  /\ retLux = <<50, 1>>

(* C12: every sleep made during a call readLightLevel(fDelayPtr) is made by  *)
(* calling fDelayPtr; the platform's delay is not called during that read,   *)
(* the wake of the sensor included.                                          *)
C12_SleepsUseCallerDelay ==
  op = "readLightLevel" => \A i \in Positions(IsSleep) : log[i].fn = loc.rlDelay

\* the mode bytes of the mode-select writes in the log that succeeded
AckedModes == {i \in Positions(IsModeSelect) : log[i].ok}

(* C13: in an auto-high readLightLevel in which a mode-select write fails,   *)
(* the final raw read is still made, and the hardware mode stored when the   *)
(* call returns is the mode of the last mode-select write that succeeded     *)
(* (the mode stored before the call when none succeeded), not the mode of a  *)
(* write that failed.                                                        *)
C13_StoredModeIsLastAcked ==
  (Returned("readLightLevel") /\ pre.hardwareMode /= 255 /\ virtualMode = 99
     /\ \E i \in Positions(IsModeSelect) : ~log[i].ok) =>
    /\ \E j \in Positions(IsRead) : \A i \in Positions(IsModeSelect) : i < j
    /\ hardwareMode = (IF AckedModes = {} THEN pre.hardwareMode
                       ELSE log[Max(AckedModes)].val)

(* C14: in every reachable state, inside the public operations too, the      *)
(* stored hardware mode is 255 or one of 0x10, 0x11, 0x13, 0x20, 0x21, 0x23. *)
C14_HardwareModeLegal ==
  hardwareMode \in {255, 16, 17, 19, 32, 33, 35}

\* inside an auto-high read, at the write of the band's one-time mode 0x20
C14_Witness ==
  /\ op = "readLightLevel"
  /\ At("sel_write")
  /\ Positions(IsRead) /= {}
  /\ hardwareMode = 32

\* a call of begin has returned
AfterBegin == pre.begun \/ Returned("begin")

(* C15: in every state after the first call of begin has returned, whatever  *)
(* the constructor left in register and scale factor, the register lies in   *)
(* [31,254] and the scale factor equals 69 / register.                       *)
C15_RegisterAndFactorInStep ==
  AfterBegin =>
    /\ MTreg \in 31..254
    /\ MTregFactor[1] * MTreg = 69 * MTregFactor[2]

(* C16: powerDown on an initialized handle makes exactly one bus write, the  *)
(* command 0x00, and leaves hardware mode, register, scale factor, virtual   *)
(* mode, autoPowerDown and the measured flag as they were.                   *)
C16_PowerDownFrame ==
  (Returned("powerDown") /\ pre.hardwareMode /= 255) =>
    /\ Len(log) = 1
    /\ IsWrite(log[1]) /\ log[1].val = 0
    /\ hardwareMode = pre.hardwareMode
    /\ MTreg = pre.MTreg
    /\ MTregFactor = pre.MTregFactor
    /\ virtualMode = pre.virtualMode
    /\ autoPowerDown = pre.autoPowerDown
    /\ valueReaded = pre.valueReaded

\* powerDown has returned on a handle in the one-time mode 0x21 with the
\* measured flag set; the sensor took the command
C16_Witness ==
  /\ Returned("powerDown")
  /\ pre.hardwareMode = 33
  /\ pre.valueReaded
  /\ log = <<Ev("write", 0, TRUE, "-")>>
  /\ hardwareMode = 33
  /\ devDown

(* C17: on a handle that is not initialized, powerDown and readLightLevel    *)
(* make no bus transaction, call no sleep and leave every field unchanged.   *)
C17_UninitializedNoEffect ==
  (op \in {"powerDown", "readLightLevel"} /\ pre.hardwareMode = 255) =>
    /\ log = <<>>
    /\ hardwareMode = 255
    /\ MTreg = pre.MTreg
    /\ MTregFactor = pre.MTregFactor
    /\ virtualMode = pre.virtualMode
    /\ autoPowerDown = pre.autoPowerDown
    /\ valueReaded = pre.valueReaded

\* powerDown has returned on a handle left uninitialized by a failed begin
C17_Witness ==
  /\ Returned("powerDown")
  /\ pre.hardwareMode = 255
  /\ pre.begun
  /\ log = <<>>

\* a raw read has succeeded since the last mode-select, with autoPowerDown set,
\* when the running call was made
WakeDue == pre.autoPowerDown /\ pre.devDelivered

\* the mode-select writes a readLightLevel makes by itself in its virtual mode
OwnSelects == IF virtualMode = RESOLUTION_AUTO_HIGH THEN 2 ELSE 0

RawReadStep == Len(log') = Len(log) + 1 /\ IsRead(log'[Len(log')])

\* the final raw read of the readLightLevel that has returned
FinalRead == log[Max(Positions(IsRead))]

\* as the claim C19 was stated: when readLightLevel returns on an initialized
\* handle, the measured flag is true exactly if its final raw read succeeded
C19_FlagIffFinalReadSucceeded ==
  (Returned("readLightLevel") /\ pre.hardwareMode /= 255) =>
    (valueReaded <=> FinalRead.ok)

(* C19: the measured flag is set to true by every raw read whose bus         *)
(* transaction succeeds and by nothing else, and a raw read whose            *)
(* transaction fails leaves it unchanged; when readLightLevel returns on an  *)
(* initialized handle, the flag is true if its final raw read succeeded, and *)
(* if that read failed the flag is false when the call made a mode-select    *)
(* and has the value it had when the call was made otherwise.                *)
C19_FlagSetByAckedReadsOnly ==
  [][ /\ (RawReadStep /\ log'[Len(log')].ok) => valueReaded'
      /\ (RawReadStep /\ ~log'[Len(log')].ok) => (valueReaded' = valueReaded)
      /\ (valueReaded' /\ ~valueReaded) => (RawReadStep /\ log'[Len(log')].ok)
      /\ (Returned("readLightLevel") /\ pre.hardwareMode /= 255)' =>
           /\ FinalRead'.ok => valueReaded'
           /\ ~FinalRead'.ok =>
                valueReaded' = (IF Positions(IsModeSelect)' = {}
                                THEN pre'.valueReaded ELSE FALSE)
    ]_vars

\* readLightLevel has returned with the measured flag true although its
\* final raw read failed on the bus
C19_Witness ==
  /\ Returned("readLightLevel")
  /\ pre.hardwareMode /= 255
  /\ ~FinalRead.ok
  /\ valueReaded
  /\ pre.valueReaded
  /\ Positions(IsModeSelect) = {}

\* the writes of defineMTReg: the command bytes 01000xxx and 011xxxxx
IsMTWrite(e) == IsWrite(e) /\ e.val >= 64
NotMTWrite(e) == ~IsMTWrite(e)

\* the log without the writes of defineMTReg
Core == SelectSeq(log, NotMTWrite)

\* the wake of C18 puts a mode-select write and its sleep before the rest
WakeLen == IF WakeDue THEN 2 ELSE 0

\* the number of events other than defineMTReg's writes before position i
CoreBefore(i) == Cardinality({j \in 1..(i - 1) : NotMTWrite(log[j])})

\* the j-th event after the wake is as the order of C20 has it; p is the
\* probe value
C20_Expected(j, e, p) ==
  CASE j = 1 -> IsWrite(e) /\ e.val = 19
    [] j = 2 -> IsSleep(e) /\ e.val = 5
    [] j = 3 -> IsSleep(e) /\ e.val = 16
    [] j = 4 -> IsRead(e)
    [] j = 5 -> IsWrite(e) /\ e.val \in {16, 17, 32, 33}
    [] j = 6 -> IsSleep(e) /\ e.val = 5
    [] j = 7 -> IsSleep(e) /\ e.val = (IF p < 10 THEN 441 ELSE 120)
    [] j = 8 -> IsRead(e)
    [] j = 9 -> IsProbe(e)
    [] OTHER -> FALSE

\* the register of the band of probe value p
C20_BandRegister(p) == IF p < 10 THEN 254 ELSE IF p < 60000 THEN 69 ELSE 32

(* C20: in every auto-high readLightLevel on an initialized handle whose bus *)
(* writes succeed, after the wake if there is one, the events come in this   *)
(* order: register set to 69, 0x13 written, sleep 5, sleep 16, probe raw     *)
(* read, register of the band set, high-resolution mode command written,     *)
(* sleep 5, sleep of the band (120, or 441 in the dark band), final raw      *)
(* read; so no raw read comes before the sleeps of its mode command.         *)
C20_AutoRangeOrder ==
  (op = "readLightLevel" /\ pre.hardwareMode /= 255 /\ virtualMode = 99
     /\ \A i \in Positions(IsWrite) : log[i].ok) =>
    LET n == Len(Core) - WakeLen
        p == Core[WakeLen + 4].val
    IN  /\ n <= 9
        /\ \A j \in 1..n : C20_Expected(j, Core[WakeLen + j], p)
        /\ pc = <<>> => n >= 8
        /\ n \in 1..3 => MTreg = 69
        /\ n = 4 => MTreg \in {69, C20_BandRegister(p)}
        /\ n >= 5 => MTreg = C20_BandRegister(p)
        /\ \A i \in Positions(IsMTWrite) : CoreBefore(i) - WakeLen \in {0, 4}

\* an auto-high read after a wake, in the dark band: all ten events, and the
\* register moved twice (two writes each time)
C20_Witness ==
  /\ Returned("readLightLevel")
  /\ pre.hardwareMode /= 255 /\ virtualMode = 99
  /\ WakeDue
  /\ pre.MTreg = 254
  /\ \A i \in Positions(IsWrite) : log[i].ok
  /\ Len(Core) = 10
  /\ Core[6].val = 9
  /\ Core[9] = Ev("sleep", 441, TRUE, "delay")
  /\ IsRead(Core[10])
  /\ MTreg = 254
  /\ Cardinality(Positions(IsMTWrite)) = 4

\* the sum of the sleeps logged at the positions i+1 .. j-1
RECURSIVE SleepSum(_, _)
SleepSum(i, j) ==
  IF i + 1 >= j THEN 0
  ELSE (IF IsSleep(log[j - 1]) THEN log[j - 1].val ELSE 0) + SleepSum(i, j - 1)

\* settle time plus acquisition time of the mode of command byte m
MinWait(m) ==
  IF m \in {BH1750_CONTINUOUS_LOW_RES_MODE, BH1750_ONE_TIME_LOW_RES_MODE}
  THEN 5 + 16 ELSE 5 + 120

(* C21: in every virtual mode, whenever a call of readLightLevel has written *)
(* a mode-select command (in a wake or in the auto-range) and makes a raw    *)
(* read later, the sleeps between that command and the raw read add up to at *)
(* least 5 + 16 for a low-resolution mode and 5 + 120 for a high-resolution  *)
(* mode.                                                                     *)
C21_SleepsCoverSettleAndAcquisition ==
  (op = "readLightLevel" /\ pre.hardwareMode /= 255) =>
    \A i \in Positions(IsModeSelect) : \A j \in Positions(IsRead) :
      (i < j /\ log[i].ok) => SleepSum(i, j) >= MinWait(log[i].val)

\* the probe read of an auto-high read has failed on the bus
ProbeReadFailed ==
  /\ op = "readLightLevel" /\ pre.hardwareMode /= 255 /\ virtualMode = 99
  /\ Positions(IsRead) /= {}
  /\ ~log[Min(Positions(IsRead))].ok

(* C22: in an auto-high readLightLevel, a probe raw read that fails on the   *)
(* bus is no error: its value 0xFFFF falls in the very bright band, so the   *)
(* register is set to 32 and a high-resolution mode-1 command is selected    *)
(* before the final read, which is made.                                     *)
C22_FailedProbeIsVeryBright ==
  ProbeReadFailed =>
    LET k == Min(Positions(IsRead))
        sel == {i \in Positions(IsModeSelect) : i > k}
        fin == {j \in Positions(IsRead) : j > k}
    IN  /\ log[k].val = 65535
        /\ \A i \in sel : log[i].val = (IF autoPowerDown THEN 32 ELSE 16)
        /\ sel /= {} => (MTreg = 32 /\ hardwareMode = log[Max(sel)].val)
        /\ \A j \in fin : sel /= {} /\ Max(sel) < j
        /\ pc = <<>> => (Cardinality(sel) = 1 /\ Cardinality(fin) = 1)

\* an auto-high read whose probe read failed has returned a lux value read
\* with register 32 in the one-time mode 0x20
C22_Witness ==
  /\ ProbeReadFailed
  /\ pc = <<>>
  /\ autoPowerDown
  /\ MTreg = 32
  /\ hardwareMode = 32
  /\ log[Max(Positions(IsRead))] = Ev("read", 120, TRUE, "-")
  /\ retLux /= MinusOne

====
